---- MODULE Spec2Model ----
(***************************************************************************)
(* KedroDataCatalog (src/kedro/io/kedro_data_catalog.py): the registry of  *)
(* datasets by name, its construction with load-version validation, and    *)
(* the operations get_dataset, add, add_from_dict, load, release, confirm; *)
(* two threads that call get_dataset at the same time; and the read        *)
(* namespace _FrozenDatasets of src/kedro/io/old_data_catalog.py with the  *)
(* constructor of DataCatalogOld.                                          *)
(*                                                                         *)
(* Names are sequences of one-character strings ("r.a" is <<"r",".","a">>) *)
(* so that sorting and pattern matching are computed, not assumed.         *)
(* A dataset object is an identity that indexes objs; objs keeps the       *)
(* objects that are alive: those the catalog, the caller's pool or the     *)
(* last return value can still reach.  As in Python, an identity is unique *)
(* among the objects alive at the same time: a new object gets an identity *)
(* that no live object has.                                                *)
(*                                                                         *)
(* The base class AbstractDataCatalog, AbstractDataset.from_config,        *)
(* AbstractDataset._copy and MemoryDataset live in other modules of kedro; *)
(* they are modelled from spec.md (sections 3, 4.1 - 4.3, 6).              *)
(***************************************************************************)
EXTENDS Integers, Sequences, FiniteSets, TLC

(* ------------------------------ bounds -------------------------------- *)

\* Longest load_versions mapping given to the constructor.
MaxLoadVersions == 2
\* Longest mapping given to add_from_dict.
MaxEntries == 2
\* Most _FrozenDatasets objects alive at a time.
MaxNamespaces == 2
\* Most collections given to one _FrozenDatasets, and most items of a dict.
MaxCollections == 2
MaxItems == 2

(* --------------------------- plain values ----------------------------- *)

\* Python's None where a string is expected.
NONE == "<None>"

\* Truthiness of an optional string: None and "" are falsy.
Truthy(s) == s # NONE /\ s # ""

\* kedro.io.core.Version(load, save), or None (none = TRUE).
NoVersion == [none |-> TRUE, load |-> NONE, save |-> NONE]
Version(l, s) == [none |-> FALSE, load |-> l, save |-> s]

\* Function update that may extend the domain (dict item assignment).
Put(f, k, v) == [y \in DOMAIN f \cup {k} |-> IF y = k THEN v ELSE f[y]]

EmptyMap == [y \in {} |-> 0]

\* dict.update on a mapping: the entries of g replace or extend those of f.
Override(f, g) ==
    [k \in DOMAIN f \cup DOMAIN g |-> IF k \in DOMAIN g THEN g[k] ELSE f[k]]

\* The empty configuration record {}.
EmptyConfig == {}

\* A configuration record is a set of <<option, value>> pairs.
ConfigOf(type) == {<<"type", type>>}
TypeOf(cfg) == (CHOOSE p \in cfg : p[1] = "type")[2]
\* A configuration with a second option, to tell templates apart.
Template(type, layer) == ConfigOf(type) \cup {<<"layer", layer>>}

(* ------------------------- names and ordering ------------------------- *)

NameX == <<"x">>
NameRA == <<"r", ".", "a">>
NameM == <<"m">>
NameZ == <<"z">>
\* "r a" and "r__a": they differ from "r.a" where it has no word character.
NameRSA == <<"r", " ", "a">>
NameRUA == <<"r", "_", "_", "a">>

\* The names the operations are called with.
Names == {NameX, NameRA, NameM}
AllNames == Names \cup {NameZ}

\* Code point of a character (Python compares strings by code point).
Code(ch) ==
    CASE ch = " " -> 32
      [] ch = "." -> 46
      [] ch = "_" -> 95
      [] ch = "a" -> 97
      [] ch = "m" -> 109
      [] ch = "r" -> 114
      [] ch = "x" -> 120
      [] ch = "z" -> 122

RECURSIVE StrLess(_, _)
\* s < t for Python strings.
StrLess(s, t) ==
    IF t = <<>> THEN FALSE
    ELSE IF s = <<>> THEN TRUE
    ELSE IF Head(s) = Head(t) THEN StrLess(Tail(s), Tail(t))
    ELSE Code(Head(s)) < Code(Head(t))

RECURSIVE Insert(_, _)
Insert(k, sq) ==
    IF sq = <<>> THEN <<k>>
    ELSE IF StrLess(k, Head(sq)) THEN <<k>> \o sq
    ELSE <<Head(sq)>> \o Insert(k, Tail(sq))

RECURSIVE sorted(_)
\* Python's sorted() on a list of strings.
sorted(sq) == IF sq = <<>> THEN <<>> ELSE Insert(Head(sq), sorted(Tail(sq)))

(* ----------------------------- patterns ------------------------------- *)

\* A pattern is a sequence of tokens: a literal character or a placeholder.
Placeholders == {"{n}", "{p}", "{default}"}
IsPlaceholder(tok) == tok \in Placeholders

PatR == <<"r", ".", "{n}">>
PatDefault == <<"{default}">>
\* "{n}.a", "{p}.{n}" and "r{n}": with "r.{n}", the patterns that match "r.a".
PatA == <<"{n}", ".", "a">>
PatPN == <<"{p}", ".", "{n}">>
PatRN == <<"r", "{n}">>

RECURSIVE Matches(_, _)
\* The pattern matches the whole name, each placeholder bound to a non-empty
\* substring.
Matches(pat, s) ==
    IF pat = <<>> THEN s = <<>>
    ELSE IF IsPlaceholder(Head(pat))
         THEN \E k \in 1..Len(s) : Matches(Tail(pat), SubSeq(s, k + 1, Len(s)))
         ELSE /\ s # <<>>
              /\ Head(s) = Head(pat)
              /\ Matches(Tail(pat), Tail(s))

\* Number of non-placeholder characters, and of placeholder segments.
Literals(pat) == Cardinality({i \in 1..Len(pat) : ~IsPlaceholder(pat[i])})
Segments(pat) == Cardinality({i \in 1..Len(pat) : IsPlaceholder(pat[i])})

\* p is strictly more specific than q.
MoreSpecific(p, q) ==
    \/ Literals(p) > Literals(q)
    \/ Literals(p) = Literals(q) /\ Segments(p) < Segments(q)

IsPattern(key) == \E i \in 1..Len(key) : IsPlaceholder(key[i])

(* ------------------------------ datasets ------------------------------ *)

\* Dataset classes: which are AbstractVersionedDataset, which have confirm.
DatasetTypes == {"VersionedDataset", "ConfirmableDataset", "MemoryDataset"}
VersionAware(type) == type = "VersionedDataset"
HasConfirm(type) == type = "ConfirmableDataset"

\* An object identity: how the object came to be (given by the caller,
\* built from config for a name, copied, wrapped in memory) and a serial.
Id(kind, name, n) == [kind |-> kind, name |-> name, n |-> n]
NoObj == Id("none", <<>>, 0)

\* Datasets built by the caller before the catalog exists.
PoolObjs ==
    << [type |-> "VersionedDataset", version |-> Version(NONE, NONE), data |-> 1],
       [type |-> "ConfirmableDataset", version |-> NoVersion, data |-> 2] >>
PoolId(i) == Id("pool", <<>>, i)
Pool == {PoolId(i) : i \in 1..Len(PoolObjs)}

\* The identity of a new object: the least serial no live object of its
\* kind and name has.
Fresh(heap, kind, name) ==
    Id(kind, name,
       CHOOSE n \in 1..(Cardinality(DOMAIN heap) + 1) :
          /\ Id(kind, name, n) \notin DOMAIN heap
          /\ \A k \in 1..(n - 1) : Id(kind, name, k) \in DOMAIN heap)

\* Values that are not datasets, as add_from_dict may receive them.
LiteralValues == {42}

\* AbstractDataset.from_config(name, config, load_version, save_version):
\* the construction factory; a version-aware class gets the version pair.
from_config(ds_name, cfg, load_version, save_v) ==
    [type |-> TypeOf(cfg),
     version |-> IF VersionAware(TypeOf(cfg))
                 THEN Version(load_version, save_v)
                 ELSE NoVersion,
     data |-> IF TypeOf(cfg) = "MemoryDataset" THEN 0 ELSE 1]

\* MemoryDataset(data=value).
MemoryDataset(value) == [type |-> "MemoryDataset", version |-> NoVersion, data |-> value]

(* ------------------------------- state -------------------------------- *)

VARIABLES
    args,                 \* the constructor's arguments
    phase,                \* "new", "ready" (constructed) or "failed"
    config,               \* self._config: explicitly configured names
    dataset_patterns,     \* self._dataset_patterns: pattern -> template
    default_pattern,      \* self._default_pattern: at most one entry
    load_versions,        \* self._load_versions, in insertion order
    save_version,         \* self._save_version
    datasets,             \* self._datasets: name -> object identity
    resolved_ds_configs,  \* self._resolved_ds_configs: name -> config record
    objs,                 \* identity -> dataset object
    built,                \* name -> number of from_config calls for it
    ret,                  \* the last call, its arguments and its outcome
    threads,              \* thread -> its position in a concurrent get_dataset
    namespaces,           \* _FrozenDatasets objects: identity -> __dict__
    name_lists,           \* the _original_names dicts: identity -> keys in order
    old_catalog           \* the DataCatalogOld object, once constructed

static == <<config, dataset_patterns, default_pattern, load_versions, save_version>>
\* The state of the old catalog and of the namespaces.
oldvars == <<namespaces, name_lists, old_catalog>>
vars == <<args, phase, config, dataset_patterns, default_pattern, load_versions,
          save_version, datasets, resolved_ds_configs, objs, built, ret, threads,
          oldvars>>

\* The mutable part of the catalog and of the heap, as one value.
Cat ==
    [datasets |-> datasets, resolved |-> resolved_ds_configs, objs |-> objs,
     built |-> built]

\* The outcome of a call: the state it leaves, the error it raised ("" for
\* none) with the name the message carries, the object and the value it
\* returned, and the dataset capabilities it invoked, in order.
Outcome(c, err, errName, obj, value, calls) ==
    [c |-> c, err |-> err, errName |-> errName, obj |-> obj, value |-> value,
     calls |-> calls]

Ok(c, obj) == Outcome(c, "", <<>>, obj, 0, <<>>)
Raise(c, err, name) == Outcome(c, err, name, NoObj, 0, <<>>)

\* The threads that call get_dataset at the same time.
Threads == {"t1", "t2"}

\* A thread that has not called yet: pc is its position in the call, cfg
\* the configuration it resolved, result the dataset the call returned.
IdleThread ==
    [pc |-> "idle", name |-> <<>>, cfg |-> EmptyConfig, err |-> "", result |-> NoObj]

\* No DataCatalogOld yet; ns is the identity of its datasets attribute.
NoOldCatalog ==
    [constructed |-> FALSE, datasets |-> <<>>, ns |-> 0, dataset_patterns |-> EmptyMap,
     load_versions |-> EmptyMap, save_version |-> NONE, default_pattern |-> EmptyMap]

(* --------------------------- construction ----------------------------- *)

\* dict.keys() / dict.get() of an insertion-ordered mapping of pairs.
Keys(lv) == [i \in 1..Len(lv) |-> lv[i][1]]
Get(lv, key) ==
    IF \E i \in 1..Len(lv) : lv[i][1] = key
    THEN lv[CHOOSE i \in 1..Len(lv) : lv[i][1] = key][2]
    ELSE NONE

\* AbstractDataCatalog.match_pattern: a non-default pattern whose name-shape
\* matches, the most specific one first; <<>> (falsy) when there is none.
match_pattern(pats, key) ==
    LET ms == {p \in DOMAIN pats : Matches(p, key)}
    IN  IF ms = {} THEN <<>>
        ELSE CHOOSE p \in ms : \A q \in ms : ~MoreSpecific(q, p)

\* The pattern matcher returning a most specific match also when another
\* match is as specific.
match_any_of_tied(name, pats, dflt) ==
    LET ms == {p \in DOMAIN pats : Matches(p, name)}
    IN  IF ms = {}
        THEN IF DOMAIN dflt = {}
             THEN [kind |-> "NoMatch", template |-> EmptyConfig]
             ELSE [kind |-> "Match", template |-> dflt[CHOOSE p \in DOMAIN dflt : TRUE]]
        ELSE [kind |-> "Match",
              template |-> pats[CHOOSE p \in ms : \A q \in ms : ~MoreSpecific(q, p)]]

\* The pattern matcher (spec 4.1): the single most specific non-default
\* match, the default pattern when nothing else matches, or no match / an
\* ambiguous match.
match(name, pats, dflt) ==
    LET ms == {p \in DOMAIN pats : Matches(p, name)}
        top == {p \in ms : \A q \in ms \ {p} : MoreSpecific(p, q)}
    IN  IF ms = {}
        THEN IF DOMAIN dflt = {}
             THEN [kind |-> "NoMatch", template |-> EmptyConfig]
             ELSE [kind |-> "Match", template |-> dflt[CHOOSE p \in DOMAIN dflt : TRUE]]
        ELSE IF top = {}
             THEN [kind |-> "AmbiguousMatch", template |-> EmptyConfig]
             ELSE [kind |-> "Match", template |-> pats[CHOOSE p \in top : TRUE]]

\* _validate_missing_keys without the sort: the keys in the mapping's order.
validate_missing_keys_unsorted(self) ==
    SelectSeq(Keys(self.load_versions),
              LAMBDA key : ~(\/ key \in DOMAIN self.config
                             \/ match_pattern(self.dataset_patterns, key) # <<>>))

\* _validate_missing_keys asking the resolution get_dataset uses, default
\* pattern included, instead of match_pattern.
validate_missing_keys_default_ok(self) ==
    sorted(SelectSeq(Keys(self.load_versions),
                     LAMBDA key :
                        ~(\/ key \in DOMAIN self.config
                          \/ match(key, self.dataset_patterns,
                                   self.default_pattern).kind # "NoMatch")))

\* _validate_missing_keys without the test for a configured name: only the
\* patterns are asked.
validate_missing_keys_patterns_only(self) ==
    sorted(SelectSeq(Keys(self.load_versions),
                     LAMBDA key : ~(match_pattern(self.dataset_patterns, key) # <<>>)))

\* _validate_missing_keys: the keys the error message lists (those neither
\* configured nor matched by a pattern, sorted); <<>> when it raises nothing.
validate_missing_keys(self) ==
    sorted(SelectSeq(Keys(self.load_versions),
                     LAMBDA key : ~(\/ key \in DOMAIN self.config
                                    \/ match_pattern(self.dataset_patterns, key) # <<>>)))

\* AbstractDataCatalog.__init__: the raw config splits into explicit names,
\* patterns (keys with a placeholder) and the default pattern (a pattern
\* with no literal character).
ExplicitOf(raw) == [k \in {k \in DOMAIN raw : ~IsPattern(k)} |-> raw[k]]
PatternsOf(raw) ==
    [k \in {k \in DOMAIN raw : IsPattern(k) /\ Literals(k) > 0} |-> raw[k]]
DefaultOf(raw) ==
    [k \in {k \in DOMAIN raw : IsPattern(k) /\ Literals(k) = 0} |-> raw[k]]

\* The stored configs after construction: {} for every dataset given as an
\* object, the explicit configuration for every configured name.
InitialResolved(ds, raw) ==
    [n \in DOMAIN ds \cup DOMAIN ExplicitOf(raw) |->
        IF n \in DOMAIN ExplicitOf(raw) THEN raw[n] ELSE EmptyConfig]

\* ret before any call.  op is the method called, name its name argument.
NoRet ==
    [op |-> "none", name |-> <<>>, version |-> NoVersion, replace |-> FALSE,
     mapping |-> <<>>, err |-> "", errName |-> <<>>, errKeys |-> <<>>,
     obj |-> NoObj, value |-> 0, calls |-> <<>>]

\* The constructor's arguments are gone once it has run.
NoArgs ==
    [datasets |-> EmptyMap, config |-> EmptyMap, load_versions |-> <<>>,
     save_version |-> NONE]

\* KedroDataCatalog.__init__
Construct ==
    /\ phase = "new"
    /\ load_versions' = args.load_versions
    /\ save_version' = args.save_version
    /\ config' = ExplicitOf(args.config)
    /\ dataset_patterns' = PatternsOf(args.config)
    /\ default_pattern' = DefaultOf(args.config)
    /\ datasets' = args.datasets
    /\ resolved_ds_configs' = InitialResolved(args.datasets, args.config)
    /\ LET missing == validate_missing_keys(
                          [load_versions |-> load_versions', config |-> config',
                           dataset_patterns |-> dataset_patterns',
                           default_pattern |-> default_pattern'])
       IN  IF missing # <<>>
           THEN /\ phase' = "failed"
                /\ ret' = [NoRet EXCEPT !.op = "init", !.err = "DatasetNotFoundError",
                                        !.errKeys = missing]
           ELSE /\ phase' = "ready"
                /\ ret' = [NoRet EXCEPT !.op = "init"]
    /\ args' = NoArgs
    /\ UNCHANGED <<objs, built, threads, oldvars>>

(* ------------------------- constructor inputs ------------------------- *)

ConfigBase ==
    Put(Put(EmptyMap, NameX, ConfigOf("VersionedDataset")),
        PatR, ConfigOf("ConfirmableDataset"))
ConfigWithDefault == Put(ConfigBase, PatDefault, ConfigOf("MemoryDataset"))
ConfigChoices == {ConfigBase, ConfigWithDefault}

DatasetsChoices == {EmptyMap, Put(EmptyMap, NameM, PoolId(2))}

LoadVersionKeys == AllNames
LoadVersionChoices ==
    {lv \in UNION {[1..n -> LoadVersionKeys \X {"v1"}] : n \in 0..MaxLoadVersions} :
        \A i, j \in 1..Len(lv) : i # j => lv[i][1] # lv[j][1]}

SaveVersionChoices == {NONE, "s1"}

\* The constructor arguments of the catalogs the operations are run on.
CatalogArgs ==
    [datasets : {EmptyMap}, config : ConfigChoices,
     load_versions : {<<<<NameX, "v1">>>>, <<<<NameM, "v1">>>>},
     save_version : {"s1"}]

\* Every constructor argument within the bounds.
AllArgs ==
    [datasets : DatasetsChoices, config : ConfigChoices,
     load_versions : LoadVersionChoices, save_version : SaveVersionChoices]

\* The configurations the pattern matcher is tried on: "x" configured, "r.a"
\* configured or not, any of the four patterns that match "r.a", with or
\* without the default pattern.
PatternTemplates ==
    Put(Put(Put(Put(EmptyMap, PatR, ConfigOf("ConfirmableDataset")),
                PatA, Template("ConfirmableDataset", "a")),
            PatPN, Template("MemoryDataset", "pn")),
        PatRN, Template("VersionedDataset", "rn"))
MatchConfigs ==
    {Override(Override(e, [p \in ps |-> PatternTemplates[p]]), d) :
        e \in {Put(EmptyMap, NameX, ConfigOf("VersionedDataset")),
                Put(Put(EmptyMap, NameX, ConfigOf("VersionedDataset")),
                    NameRA, Template("VersionedDataset", "explicit"))},
        ps \in SUBSET DOMAIN PatternTemplates,
        d \in {EmptyMap, Put(EmptyMap, PatDefault, ConfigOf("MemoryDataset"))}}

\* The constructor arguments of the catalogs names are resolved in.
MatchArgs ==
    [datasets : DatasetsChoices, config : MatchConfigs,
     load_versions : {<<>>, <<<<NameX, "v1">>>>, <<<<NameRA, "v1">>>>},
     save_version : {"s1"}]

\* Before the constructor runs.
Start(argSet) ==
    /\ args \in argSet
    /\ phase = "new"
    /\ config = EmptyMap
    /\ dataset_patterns = EmptyMap
    /\ default_pattern = EmptyMap
    /\ load_versions = <<>>
    /\ save_version = NONE
    /\ datasets = EmptyMap
    /\ resolved_ds_configs = EmptyMap
    /\ objs = [i \in Pool |-> PoolObjs[i.n]]
    /\ built = [n \in AllNames |-> 0]
    /\ ret = NoRet
    /\ threads = [t \in Threads |-> IdleThread]
    /\ namespaces = EmptyMap
    /\ name_lists = EmptyMap
    /\ old_catalog = NoOldCatalog

Init == Start(CatalogArgs)
InitCtor == Start(AllArgs)
InitMatch == Start(MatchArgs)

(* ---------------------------- resolution ------------------------------ *)

\* KedroDataCatalog._init_dataset: build the dataset from its config with the
\* name's load version and the global save version, and cache it.
init_dataset(c, ds_name, cfg) ==
    LET new == Fresh(c.objs, "built", ds_name)
    IN  [c EXCEPT !.datasets = Put(c.datasets, ds_name, new),
                  !.objs = Put(c.objs, new,
                               from_config(ds_name, cfg, Get(load_versions, ds_name),
                                           save_version)),
                  !.built = [c.built EXCEPT ![ds_name] = @ + 1]]

\* AbstractDataCatalog.get_dataset (spec 4.3, get): the cached dataset if
\* present; else resolve by explicit config or pattern, materialize, cache.
super_get_dataset(c, ds_name) ==
    IF ds_name \in DOMAIN c.datasets
    THEN Ok(c, c.datasets[ds_name])
    ELSE IF ds_name \in DOMAIN config
    THEN LET c2 == init_dataset(c, ds_name, config[ds_name])
         IN  Ok(c2, c2.datasets[ds_name])
    ELSE LET m == match(ds_name, dataset_patterns, default_pattern)
         IN  CASE m.kind = "NoMatch" -> Raise(c, "DatasetNotFoundError", ds_name)
               [] m.kind = "AmbiguousMatch" -> Raise(c, "AmbiguousPatternError", ds_name)
               [] OTHER ->
                    LET c1 == [c EXCEPT !.resolved = Put(c.resolved, ds_name, m.template)]
                        c2 == init_dataset(c1, ds_name, m.template)
                    IN  Ok(c2, c2.datasets[ds_name])

\* AbstractDataset._copy(_version=version): a shallow copy, a new object,
\* with the version replaced.
copy(c, obj, version) ==
    LET new == Fresh(c.objs, "copy", <<>>)
    IN  Ok([c EXCEPT !.objs = Put(c.objs, new, [c.objs[obj] EXCEPT !.version = version])],
           new)

(* ---------------------------- operations ------------------------------ *)

\* get_dataset without the "version and" test: a versioned dataset is copied
\* on every call.
get_dataset_always_copy(c, ds_name, version) ==
    LET r == super_get_dataset(c, ds_name)
    IN  IF r.err # "" THEN r
        ELSE IF VersionAware(r.c.objs[r.obj].type)
             THEN copy(r.c, r.obj, version)
             ELSE r

\* get_dataset without the isinstance test: any dataset is copied when a
\* version is given.
get_dataset_copy_any(c, ds_name, version) ==
    LET r == super_get_dataset(c, ds_name)
    IN  IF r.err # "" THEN r
        ELSE IF ~version.none
             THEN copy(r.c, r.obj, version)
             ELSE r

\* get_dataset setting the version on the cached dataset itself.
get_dataset_in_place(c, ds_name, version) ==
    LET r == super_get_dataset(c, ds_name)
    IN  IF r.err # "" THEN r
        ELSE IF ~version.none /\ VersionAware(r.c.objs[r.obj].type)
             THEN Ok([r.c EXCEPT !.objs[r.obj].version = version], r.obj)
             ELSE r

\* KedroDataCatalog.get_dataset
get_dataset(c, ds_name, version) ==
    LET r == super_get_dataset(c, ds_name)
    IN  IF r.err # "" THEN r
        ELSE IF ~version.none /\ VersionAware(r.c.objs[r.obj].type)
             THEN copy(r.c, r.obj, version)
             ELSE r

\* add installing the dataset before it looks for an existing one.
add_assign_first(c, ds_name, dataset, replace) ==
    LET c2 == [c EXCEPT !.datasets = Put(c.datasets, ds_name, dataset),
                        !.resolved = Put(c.resolved, ds_name, EmptyConfig)]
    IN  IF ds_name \in DOMAIN c.datasets /\ ~replace
        THEN Raise(c2, "DatasetAlreadyExistsError", ds_name)
        ELSE Ok(c2, NoObj)

\* add leaving the stored configuration of the name as it was.
add_keep_config(c, ds_name, dataset, replace) ==
    IF ds_name \in DOMAIN c.datasets /\ ~replace
    THEN Raise(c, "DatasetAlreadyExistsError", ds_name)
    ELSE Ok([c EXCEPT !.datasets = Put(c.datasets, ds_name, dataset)], NoObj)

\* add with replace=true dropping the entry it was to replace.
add_replace_pops(c, ds_name, dataset, replace) ==
    IF ds_name \in DOMAIN c.datasets /\ ~replace
    THEN Raise(c, "DatasetAlreadyExistsError", ds_name)
    ELSE IF ds_name \in DOMAIN c.datasets
         THEN Ok([c EXCEPT !.datasets = [n \in DOMAIN c.datasets \ {ds_name} |->
                                            c.datasets[n]],
                           !.resolved = Put(c.resolved, ds_name, EmptyConfig)],
                 NoObj)
         ELSE Ok([c EXCEPT !.datasets = Put(c.datasets, ds_name, dataset),
                           !.resolved = Put(c.resolved, ds_name, EmptyConfig)],
                 NoObj)

\* KedroDataCatalog.add
add(c, ds_name, dataset, replace) ==
    IF ds_name \in DOMAIN c.datasets /\ ~replace
    THEN Raise(c, "DatasetAlreadyExistsError", ds_name)
    ELSE Ok([c EXCEPT !.datasets = Put(c.datasets, ds_name, dataset),
                      !.resolved = Put(c.resolved, ds_name, EmptyConfig)],
            NoObj)

\* An entry of the mapping given to add_from_dict: a dataset object or a
\* value that is not a dataset.
DsEntry(name, obj) == [name |-> name, isDs |-> TRUE, obj |-> obj, lit |-> 0]
LitEntry(name, lit) == [name |-> name, isDs |-> FALSE, obj |-> NoObj, lit |-> lit]

RECURSIVE add_from_dict_apply(_, _, _)
\* The loop of add_from_dict, for add_from_dict_rollback.
add_from_dict_apply(c, mapping, replace) ==
    IF mapping = <<>> THEN Ok(c, NoObj)
    ELSE LET e == Head(mapping)
             new == Fresh(c.objs, "memory", e.name)
             c1 == IF e.isDs THEN c
                   ELSE [c EXCEPT !.objs = Put(c.objs, new, MemoryDataset(e.lit))]
             dataset == IF e.isDs THEN e.obj ELSE new
             r == add(c1, e.name, dataset, replace)
         IN  IF r.err # "" THEN r ELSE add_from_dict_apply(r.c, Tail(mapping), replace)

\* add_from_dict undoing the entries it installed when a later one fails.
add_from_dict_rollback(c, mapping, replace) ==
    LET r == add_from_dict_apply(c, mapping, replace)
    IN  IF r.err # "" THEN [r EXCEPT !.c = c] ELSE r

RECURSIVE add_from_dict_wrap_all(_, _, _)
\* add_from_dict without the isinstance test: every value is wrapped.
add_from_dict_wrap_all(c, mapping, replace) ==
    IF mapping = <<>> THEN Ok(c, NoObj)
    ELSE LET e == Head(mapping)
             new == Fresh(c.objs, "memory", e.name)
             c1 == [c EXCEPT !.objs = Put(c.objs, new, MemoryDataset(e.lit))]
             r == add(c1, e.name, new, replace)
         IN  IF r.err # "" THEN r ELSE add_from_dict_wrap_all(r.c, Tail(mapping), replace)

RECURSIVE add_from_dict(_, _, _)
\* KedroDataCatalog.add_from_dict: the entries in the mapping's order; the
\* first add that raises ends the loop.
add_from_dict(c, mapping, replace) ==
    IF mapping = <<>> THEN Ok(c, NoObj)
    ELSE LET e == Head(mapping)
             new == Fresh(c.objs, "memory", e.name)
             c1 == IF e.isDs THEN c
                   ELSE [c EXCEPT !.objs = Put(c.objs, new, MemoryDataset(e.lit))]
             dataset == IF e.isDs THEN e.obj ELSE new
             r == add(c1, e.name, dataset, replace)
         IN  IF r.err # "" THEN r ELSE add_from_dict(r.c, Tail(mapping), replace)

\* dataset.load(): the data the dataset holds; a MemoryDataset that was
\* never given data raises.
dataset_load(c, obj) ==
    IF c.objs[obj].data = 0
    THEN Outcome(c, "DatasetError", <<>>, obj, 0, <<<<"load", obj>>>>)
    ELSE Outcome(c, "", <<>>, obj, c.objs[obj].data, <<<<"load", obj>>>>)

\* load taking the versions of the copy from the catalog: the load version
\* the catalog holds for the name, if any, and the global save version.
load_catalog_versions(c, name, version) ==
    LET lv == Get(load_versions, name)
        load_version == IF Truthy(version)
                        THEN Version(IF lv # NONE THEN lv ELSE version, save_version)
                        ELSE NoVersion
        r == get_dataset(c, name, load_version)
    IN  IF r.err # "" THEN r ELSE dataset_load(r.c, r.obj)

\* KedroDataCatalog.load
load(c, name, version) ==
    LET load_version == IF Truthy(version) THEN Version(version, NONE) ELSE NoVersion
        r == get_dataset(c, name, load_version)
    IN  IF r.err # "" THEN r ELSE dataset_load(r.c, r.obj)

\* release dropping the catalog's reference to the dataset it released.
release_drops(c, name) ==
    LET r == get_dataset(c, name, NoVersion)
    IN  IF r.err # "" THEN r
        ELSE Outcome([r.c EXCEPT !.datasets = [n \in DOMAIN r.c.datasets \ {name} |->
                                                  r.c.datasets[n]]],
                     "", <<>>, r.obj, 0, <<<<"release", r.obj>>>>)

\* KedroDataCatalog.release
release(c, name) ==
    LET r == get_dataset(c, name, NoVersion)
    IN  IF r.err # "" THEN r
        ELSE Outcome(r.c, "", <<>>, r.obj, 0, <<<<"release", r.obj>>>>)

\* confirm without the hasattr test.
confirm_no_check(c, name) ==
    LET r == get_dataset(c, name, NoVersion)
    IN  IF r.err # "" THEN r
        ELSE Outcome(r.c, "", <<>>, r.obj, 0, <<<<"confirm", r.obj>>>>)

\* KedroDataCatalog.confirm
confirm(c, name) ==
    LET r == get_dataset(c, name, NoVersion)
    IN  IF r.err # "" THEN r
        ELSE IF HasConfirm(r.c.objs[r.obj].type)
             THEN Outcome(r.c, "", <<>>, r.obj, 0, <<<<"confirm", r.obj>>>>)
             ELSE Outcome(r.c, "DatasetError", name, r.obj, 0, <<>>)

(* ------------------------------ actions ------------------------------- *)

\* The objects still reachable after a call: the caller's pool, the cached
\* datasets and the object the call returned or acted on.
Reachable(r) ==
    Pool \cup {r.c.datasets[n] : n \in DOMAIN r.c.datasets}
         \cup (IF r.obj = NoObj THEN {} ELSE {r.obj})

\* The outcome of a call becomes the state; objects nothing reaches are gone.
Commit(r, call) ==
    /\ datasets' = r.c.datasets
    /\ resolved_ds_configs' = r.c.resolved
    /\ objs' = [i \in Reachable(r) |-> r.c.objs[i]]
    /\ built' = r.c.built
    /\ ret' = [call EXCEPT !.err = r.err, !.errName = r.errName, !.obj = r.obj,
                           !.value = r.value, !.calls = r.calls]
    /\ UNCHANGED <<args, phase, static, threads, oldvars>>

VersionArgs == {NoVersion, Version("v1", NONE), Version("v2", NONE)}
VersionStrings == {NONE, "", "v1"}

\* The names add and add_from_dict are called with.
AddNames == {NameX, NameM}

\* The mappings (distinct keys, in order) over the given names and values.
Mappings(names, dss, lits, maxLen) ==
    {mp \in UNION {[1..n -> {DsEntry(nm, d) : nm \in names, d \in dss}
                            \cup {LitEntry(nm, v) : nm \in names, v \in lits}] :
                   n \in 1..maxLen} :
        \A i, j \in 1..Len(mp) : i # j => mp[i].name # mp[j].name}

MappingChoices == Mappings(AddNames, {PoolId(2)}, LiteralValues, MaxEntries)

GetDataset ==
    /\ phase = "ready"
    /\ \E n \in Names, v \in VersionArgs :
         Commit(get_dataset(Cat, n, v),
                [NoRet EXCEPT !.op = "get_dataset", !.name = n, !.version = v])

Add ==
    /\ phase = "ready"
    /\ \E n \in AddNames, d \in Pool, rep \in BOOLEAN :
         Commit([add(Cat, n, d, rep) EXCEPT !.obj = d],
                [NoRet EXCEPT !.op = "add", !.name = n, !.replace = rep])

AddFromDict ==
    /\ phase = "ready"
    /\ \E mp \in MappingChoices, rep \in BOOLEAN :
         Commit(add_from_dict(Cat, mp, rep),
                [NoRet EXCEPT !.op = "add_from_dict", !.mapping = mp, !.replace = rep])

Load ==
    /\ phase = "ready"
    /\ \E n \in Names, v \in VersionStrings :
         Commit(load(Cat, n, v),
                [NoRet EXCEPT !.op = "load", !.name = n,
                              !.version = IF Truthy(v) THEN Version(v, NONE) ELSE NoVersion])

Release ==
    /\ phase = "ready"
    /\ \E n \in Names :
         Commit(release(Cat, n), [NoRet EXCEPT !.op = "release", !.name = n])

Confirm ==
    /\ phase = "ready"
    /\ \E n \in Names :
         Commit(confirm(Cat, n), [NoRet EXCEPT !.op = "confirm", !.name = n])

(* ----------------------- concurrent get_dataset ----------------------- *)

\* get_dataset(ds_name) without a version, run by a thread in the steps
\* between which another thread can run.  First the lookup of
\* AbstractDataCatalog.get_dataset: a cached name needs no construction; a
\* name that is not cached resolves to its configuration or fails.
Lookup ==
    /\ phase = "ready"
    /\ \E t \in Threads, n \in Names :
         /\ threads[t].pc = "idle"
         /\ LET m == match(n, dataset_patterns, default_pattern)
                th == [threads[t] EXCEPT !.name = n]
            IN  IF n \in DOMAIN datasets
                THEN /\ threads' = [threads EXCEPT ![t] = [th EXCEPT !.pc = "cached"]]
                     /\ UNCHANGED resolved_ds_configs
                ELSE IF n \in DOMAIN config
                THEN /\ threads' = [threads EXCEPT ![t] =
                                       [th EXCEPT !.pc = "resolved", !.cfg = config[n]]]
                     /\ UNCHANGED resolved_ds_configs
                ELSE IF m.kind = "Match"
                THEN /\ threads' = [threads EXCEPT ![t] =
                                       [th EXCEPT !.pc = "resolved", !.cfg = m.template]]
                     /\ resolved_ds_configs' = Put(resolved_ds_configs, n, m.template)
                ELSE /\ threads' = [threads EXCEPT ![t] =
                                       [th EXCEPT !.pc = "done",
                                                  !.err = IF m.kind = "NoMatch"
                                                          THEN "DatasetNotFoundError"
                                                          ELSE "AmbiguousPatternError"]]
                     /\ UNCHANGED resolved_ds_configs
    /\ UNCHANGED <<args, phase, static, datasets, objs, built, ret, oldvars>>

\* KedroDataCatalog._init_dataset, called for the name the thread found
\* missing: build the dataset and store it under the name.
InitDataset ==
    /\ \E t \in Threads :
         /\ threads[t].pc = "resolved"
         /\ LET c2 == init_dataset(Cat, threads[t].name, threads[t].cfg)
            IN  /\ datasets' = c2.datasets
                /\ objs' = c2.objs
                /\ built' = c2.built
         /\ threads' = [threads EXCEPT ![t].pc = "cached"]
    /\ UNCHANGED <<args, phase, static, resolved_ds_configs, ret, oldvars>>

\* _init_dataset returns nothing: the dataset the call returns is the one
\* the registry holds under the name when the thread reads it.
Return ==
    /\ \E t \in Threads :
         /\ threads[t].pc = "cached"
         /\ threads' = [threads EXCEPT ![t].pc = "done",
                                       ![t].result = datasets[threads[t].name]]
    /\ UNCHANGED <<args, phase, static, datasets, resolved_ds_configs, objs, built,
                   ret, oldvars>>

(* --------------------------- read namespace --------------------------- *)

\* The characters the regular expression \w matches, among those of the names.
WordChars == {"a", "m", "r", "x", "z", "_"}
IsWord(ch) == ch \in WordChars

RECURSIVE SkipNonWord(_)
\* The string without its leading run of non-word characters.
SkipNonWord(s) ==
    IF s = <<>> \/ IsWord(Head(s)) THEN s ELSE SkipNonWord(Tail(s))

RECURSIVE sub_nonword_chars(_)
\* _sub_nonword_chars: re.sub(r"\W+", "__", dataset_name), every maximal run
\* of non-word characters replaced by two underscores.
sub_nonword_chars(dataset_name) ==
    IF dataset_name = <<>> THEN <<>>
    ELSE IF IsWord(Head(dataset_name))
         THEN <<Head(dataset_name)>> \o sub_nonword_chars(Tail(dataset_name))
         ELSE <<"_", "_">> \o sub_nonword_chars(SkipNonWord(Tail(dataset_name)))

\* The attribute name "_original_names", as one token.
KeyOriginalNames == <<"_original_names">>

\* The keys of a dict, kept in insertion order: dict[k] = "" and dict.update.
AddKey(list, k) ==
    IF \E i \in 1..Len(list) : list[i] = k THEN list ELSE Append(list, k)

RECURSIVE UpdateKeys(_, _)
UpdateKeys(list, other) ==
    IF other = <<>> THEN list ELSE UpdateKeys(AddKey(list, Head(other)), Tail(other))

\* A collection given to _FrozenDatasets: a dict, as its items in order, or
\* another _FrozenDatasets, by identity.
DictColl(items) == [frozen |-> FALSE, ref |-> 0, items |-> items]
FrozenColl(id) == [frozen |-> TRUE, ref |-> id, items |-> <<>>]

\* The namespaces and the _original_names dicts they refer to, as one value.
\* A namespace is its __dict__: attrs are the dataset attributes, names is
\* the identity of the dict that the attribute _original_names refers to.
Heap == [ns |-> namespaces, nl |-> name_lists]

\* The identity of a new object: the least number none in f has.
FreshRef(f) ==
    CHOOSE n \in 1..(Cardinality(DOMAIN f) + 1) :
       /\ n \notin DOMAIN f
       /\ \A k \in 1..(n - 1) : k \in DOMAIN f

\* The outcome of a call on a namespace: the heap it leaves, the error it
\* raised ("" for none) with its message, and the value it returned.
NsOutcome(h, err, msg, value) == [h |-> h, err |-> err, msg |-> msg, value |-> value]

RECURSIVE add_items_first_wins(_, _, _)
\* The loop over a dict's items keeping the dataset a key already has.
add_items_first_wins(h, self, items) ==
    IF items = <<>> THEN h
    ELSE LET it == Head(items)
             me == h.ns[self]
             key == sub_nonword_chars(it[1])
         IN  add_items_first_wins(
                 [h EXCEPT !.ns[self].attrs =
                               IF key \in DOMAIN me.attrs THEN me.attrs
                               ELSE Put(me.attrs, key, it[2]),
                           !.nl[me.names] = AddKey(h.nl[me.names], it[1])],
                 self, Tail(items))

RECURSIVE add_items(_, _, _)
\* _FrozenDatasets.__init__, the loop over a dict's items: the dataset is
\* stored under the sanitized name, the name is recorded.
add_items(h, self, items) ==
    IF items = <<>> THEN h
    ELSE LET it == Head(items)
             me == h.ns[self]
         IN  add_items(
                 [h EXCEPT !.ns[self].attrs =
                               Put(me.attrs, sub_nonword_chars(it[1]), it[2]),
                           !.nl[me.names] = AddKey(h.nl[me.names], it[1])],
                 self, Tail(items))

\* _FrozenDatasets.__init__, a collection that is a _FrozenDatasets:
\* self.__dict__.update(collection.__dict__) copies every attribute of the
\* collection, the reference _original_names included; then the dict that
\* self._original_names now refers to is updated with the collection's.
merge_frozen(h, self, other) ==
    LET h1 == [h EXCEPT !.ns[self] =
                           [attrs |-> Override(h.ns[self].attrs, h.ns[other].attrs),
                            names |-> h.ns[other].names]]
        mine == h1.ns[self].names
    IN  [h1 EXCEPT !.nl[mine] = UpdateKeys(h1.nl[mine], h1.nl[h1.ns[other].names])]

RECURSIVE merge_collections(_, _, _)
\* _FrozenDatasets.__init__, the loop over the collections.
merge_collections(h, self, collections) ==
    IF collections = <<>> THEN h
    ELSE LET c == Head(collections)
         IN  merge_collections(IF c.frozen THEN merge_frozen(h, self, c.ref)
                               ELSE add_items(h, self, c.items),
                               self, Tail(collections))

\* _FrozenDatasets.__init__: a new namespace with a new, empty
\* _original_names, filled from the collections; value is its identity.
FrozenDatasets_init(h, collections) ==
    LET self == FreshRef(h.ns)
        l0 == FreshRef(h.nl)
        h0 == [ns |-> Put(h.ns, self, [attrs |-> EmptyMap, names |-> l0]),
               nl |-> Put(h.nl, l0, <<>>)]
    IN  NsOutcome(merge_collections(h0, self, collections), "", "", self)

\* _FrozenDatasets.__setattr__: the key _original_names is set (here to a
\* new empty dict); any other key raises, with one of two messages.
setattr(h, self, key, value) ==
    IF key = KeyOriginalNames
    THEN LET l0 == FreshRef(h.nl)
         IN  NsOutcome([h EXCEPT !.ns[self].names = l0, !.nl = Put(h.nl, l0, <<>>)],
                       "", "", 0)
    ELSE NsOutcome(h, "AttributeError",
                   IF key \in DOMAIN h.ns[self].attrs
                   THEN "Please change datasets through configuration."
                   ELSE "Please use DataCatalog.add() instead.",
                   0)

\* del namespace.key for a dataset key: the class defines no __delattr__, so
\* the attribute is removed from __dict__; a key that is no attribute raises.
delattr(h, self, key) ==
    IF key \in DOMAIN h.ns[self].attrs
    THEN NsOutcome([h EXCEPT !.ns[self].attrs =
                                [k \in DOMAIN h.ns[self].attrs \ {key} |->
                                    h.ns[self].attrs[k]]],
                   "", "", 0)
    ELSE NsOutcome(h, "AttributeError", "no attribute", 0)

\* _FrozenDatasets._ipython_key_completions_: the original names, in order.
ipython_key_completions(h, self) == h.nl[h.ns[self].names]

\* _FrozenDatasets.__getitem__: the dataset under the sanitized key.
getitem(h, self, key) ==
    IF sub_nonword_chars(key) \in DOMAIN h.ns[self].attrs
    THEN NsOutcome(h, "", "", h.ns[self].attrs[sub_nonword_chars(key)])
    ELSE NsOutcome(h, "KeyError", "", NoObj)

\* An optional mapping argument, and Python's `x or {}` for it.
NoneArg == [none |-> TRUE, val |-> <<>>]
Some(v) == [none |-> FALSE, val |-> v]
OrEmpty(x) == IF x.none THEN <<>> ELSE x.val

\* DataCatalogOld.__init__ with no feed_dict: the registry is a copy of the
\* datasets given, keyed by their names; the datasets attribute is a
\* namespace built from it.  value is the catalog.
DataCatalogOld_init(h, a) ==
    LET ds == OrEmpty(a.datasets)
        r == FrozenDatasets_init(h, <<DictColl(ds)>>)
    IN  NsOutcome(r.h, "", "",
                  [constructed |-> TRUE, datasets |-> ds, ns |-> r.value,
                   dataset_patterns |-> OrEmpty(a.dataset_patterns),
                   load_versions |-> OrEmpty(a.load_versions),
                   save_version |-> a.save_version,
                   default_pattern |-> OrEmpty(a.default_pattern)])

\* The dicts (distinct names, in order) over the given names and datasets.
Dicts(names, dss, maxLen) ==
    {d \in UNION {[1..n -> names \X dss] : n \in 0..maxLen} :
        \A i, j \in 1..Len(d) : i # j => d[i][1] # d[j][1]}

\* The names the namespaces are built from: two that sanitize to one key.
OldNames == {NameRA, NameRSA}
\* The dicts the namespaces are built from: each name with a dataset of its
\* own, "r.a" before "r a".
DictChoices ==
    {d \in Dicts(OldNames, Pool, MaxItems) :
        /\ \A i \in 1..Len(d) :
              d[i][2] = IF d[i][1] = NameRA THEN PoolId(1) ELSE PoolId(2)
        /\ Len(d) > 1 => d[1][1] = NameRA}

\* The sequences of collections over the given dicts and namespaces.
CollectionSeqs(dicts, nss, maxLen) ==
    UNION {[1..n -> {DictColl(d) : d \in dicts} \cup {FrozenColl(i) : i \in nss}] :
           n \in 0..maxLen}

\* The attribute keys the namespaces are asked to set and delete.
AttrKeys == {sub_nonword_chars(n) : n \in OldNames} \cup {NameX}

\* The dicts DataCatalogOld is constructed with: three names that sanitize
\* to one key, and one that does not.
CollidingDicts == Dicts(OldNames \cup {NameRUA, NameX}, Pool, MaxItems)

\* The arguments DataCatalogOld is constructed with.
OldArgs ==
    [datasets : {NoneArg} \cup {Some(d) : d \in CollidingDicts},
     dataset_patterns : {NoneArg, Some(Put(EmptyMap, PatR, ConfigOf("ConfirmableDataset")))},
     load_versions : {NoneArg},
     save_version : SaveVersionChoices, default_pattern : {NoneArg}]

\* The outcome of a call becomes the state; an _original_names dict that no
\* namespace refers to is gone.
CommitNs(r) ==
    /\ namespaces' = r.h.ns
    /\ name_lists' = [l \in {r.h.ns[i].names : i \in DOMAIN r.h.ns} |-> r.h.nl[l]]
    /\ UNCHANGED <<args, phase, static, datasets, resolved_ds_configs, objs, built,
                   ret, threads>>

OldConstruct ==
    /\ ~old_catalog.constructed
    /\ \E a \in OldArgs :
         LET r == DataCatalogOld_init(Heap, a)
         IN  /\ old_catalog' = r.value
             /\ CommitNs(r)

NewNamespace ==
    /\ Cardinality(DOMAIN namespaces) < MaxNamespaces
    /\ \E cs \in CollectionSeqs(DictChoices, DOMAIN namespaces, MaxCollections) :
         LET r == FrozenDatasets_init(Heap, cs)
         IN  CommitNs(r)
    /\ UNCHANGED old_catalog

SetAttr ==
    /\ \E i \in DOMAIN namespaces, key \in AttrKeys \cup {KeyOriginalNames},
          v \in {PoolId(1)} :
         CommitNs(setattr(Heap, i, key, v))
    /\ UNCHANGED old_catalog

DelAttr ==
    /\ \E i \in DOMAIN namespaces, key \in AttrKeys :
         CommitNs(delattr(Heap, i, key))
    /\ UNCHANGED old_catalog

(* ------------------------------- claims ------------------------------- *)

\* The outcomes of the calls that read the catalog for a name: get_dataset
\* with and without a version, load, release and confirm.
ReadOps(c, m) ==
    {get_dataset(c, m, v) : v \in VersionArgs}
        \cup {load(c, m, v) : v \in VersionStrings}
        \cup {release(c, m), confirm(c, m)}

\* C1: add(x, ds2) with replace=false on a registered name x raises
\* DatasetAlreadyExistsError for x and changes nothing: the dataset mapping,
\* every stored configuration and every object are as before, and a
\* following get(x) returns the dataset registered before.
C1_AddExistingChangesNothing ==
    \A x \in DOMAIN datasets, ds2 \in DOMAIN objs :
        LET r == add(Cat, x, ds2, FALSE)
            g == get_dataset(r.c, x, NoVersion)
        IN  /\ r.err = "DatasetAlreadyExistsError"
            /\ r.errName = x
            /\ r.c = Cat
            /\ g.err = ""
            /\ g.obj = datasets[x]

\* C1 witness: add without replace was refused for a name that keeps its
\* dataset and its non-empty stored configuration.
C1_Witness ==
    /\ ret.op = "add"
    /\ ~ret.replace
    /\ ret.err = "DatasetAlreadyExistsError"
    /\ ret.name \in DOMAIN datasets
    /\ datasets[ret.name] # ret.obj
    /\ resolved_ds_configs[ret.name] # EmptyConfig

\* C2: every successful add(x, d) leaves x mapped to d with an empty stored
\* configuration, and a following add(x, d2, replace=true) succeeds, after
\* which get(x) returns d2 (not d) and the stored configuration is empty.
C2_AddInstallsAndReplaces ==
    phase = "ready" =>
    \A x \in Names, d \in DOMAIN objs, d2 \in DOMAIN objs, rep \in BOOLEAN :
        LET r1 == add(Cat, x, d, rep)
            g1 == get_dataset(r1.c, x, NoVersion)
            r2 == add(r1.c, x, d2, TRUE)
            g2 == get_dataset(r2.c, x, NoVersion)
        IN  r1.err = "" =>
              /\ x \in DOMAIN r1.c.datasets /\ r1.c.datasets[x] = d
              /\ x \in DOMAIN r1.c.resolved /\ r1.c.resolved[x] = EmptyConfig
              /\ g1.err = "" /\ g1.obj = d
              /\ r2.err = ""
              /\ r2.c.datasets[x] = d2
              /\ x \in DOMAIN r2.c.resolved /\ r2.c.resolved[x] = EmptyConfig
              /\ g2.err = "" /\ g2.obj = d2
              /\ (d2 # d => g2.obj # d)

\* C2 witness: add with replace=true put a dataset in the place of the one
\* built from the configuration of the name, whose stored config is now empty.
C2_Witness ==
    /\ ret.op = "add"
    /\ ret.replace
    /\ ret.err = ""
    /\ ret.name \in DOMAIN config
    /\ built[ret.name] = 1
    /\ datasets[ret.name] = ret.obj
    /\ resolved_ds_configs[ret.name] = EmptyConfig

\* C3: the construction factory runs at most once per name, and a get(name)
\* without a version returns the same object again after any get, load,
\* release or confirm call: the cached object when there is one.
C3_MaterializeOnce ==
    /\ \A n \in AllNames : built[n] <= 1
    /\ phase = "ready" =>
       \A n \in Names :
          LET g == get_dataset(Cat, n, NoVersion)
          IN  g.err = "" =>
                /\ n \in DOMAIN datasets => g.obj = datasets[n] /\ g.c = Cat
                /\ g.c.built[n] <= 1
                /\ \A m \in Names :
                     \A r \in ReadOps(g.c, m) :
                        LET g2 == get_dataset(r.c, n, NoVersion)
                        IN  /\ g2.err = ""
                            /\ g2.obj = g.obj
                            /\ g2.c.built[n] = g.c.built[n]

\* C3 witness: a get without a version returned the cached object that was
\* built once from the configuration of the name.
C3_Witness ==
    /\ ret.op = "get_dataset"
    /\ ret.version.none
    /\ ret.err = ""
    /\ ret.name \in DOMAIN config
    /\ built[ret.name] = 1
    /\ ret.obj = datasets[ret.name]
    /\ ret.obj.kind = "built"

\* C4: for a version-aware dataset cached under a name, get(name, V1) and
\* get(name, V2) with V1 # V2 return two new objects, distinct from each
\* other and from the cached one, each with its own version; the calls, and
\* a load through such a copy, leave the cached object, its version and the
\* registry mapping as they were, and a later get(name) returns the cached
\* object.
C4_VersionedGetCopies ==
    \A n \in DOMAIN datasets :
       VersionAware(objs[datasets[n]].type) =>
       \A v1 \in VersionArgs \ {NoVersion}, v2 \in VersionArgs \ {NoVersion} :
          v1 # v2 =>
            LET r1 == get_dataset(Cat, n, v1)
                r2 == get_dataset(r1.c, n, v2)
                l1 == load(r2.c, n, v1.load)
                g == get_dataset(l1.c, n, NoVersion)
            IN  /\ r1.err = "" /\ r2.err = ""
                /\ r1.obj \notin DOMAIN objs
                /\ r2.obj \notin DOMAIN r1.c.objs
                /\ r1.obj # r2.obj
                /\ r1.obj # datasets[n] /\ r2.obj # datasets[n]
                /\ r2.c.objs[r1.obj].version = v1
                /\ r2.c.objs[r2.obj].version = v2
                /\ r2.c.datasets = datasets
                /\ r2.c.resolved = resolved_ds_configs
                /\ r2.c.objs[datasets[n]] = objs[datasets[n]]
                /\ l1.obj # datasets[n]
                /\ l1.c.datasets = datasets
                /\ l1.c.objs[datasets[n]] = objs[datasets[n]]
                /\ g.err = "" /\ g.obj = datasets[n]
                /\ g.c.objs[g.obj].version = objs[datasets[n]].version

\* C4 witness: a get with a version returned a copy that carries the version
\* asked for while the cached dataset of the name has another one.
C4_Witness ==
    /\ ret.op = "get_dataset"
    /\ ~ret.version.none
    /\ ret.err = ""
    /\ ret.name \in DOMAIN datasets
    /\ ret.obj.kind = "copy"
    /\ ret.obj # datasets[ret.name]
    /\ objs[ret.obj].version = ret.version
    /\ objs[datasets[ret.name]].version # ret.version

\* C5: for a dataset that is not version-aware, get(name, version=V) raises
\* nothing and returns the very object get(name) returns, for every V.
C5_VersionIgnored ==
    phase = "ready" =>
    \A n \in Names, v \in VersionArgs :
        LET g == get_dataset(Cat, n, NoVersion)
            r == get_dataset(Cat, n, v)
        IN  (g.err = "" /\ ~VersionAware(g.c.objs[g.obj].type)) =>
               /\ r.err = ""
               /\ r.obj = g.obj
               /\ r.c = g.c

\* C5 witness: a get with a version returned the cached object of a name
\* whose dataset is not version-aware.
C5_Witness ==
    /\ ret.op = "get_dataset"
    /\ ~ret.version.none
    /\ ret.err = ""
    /\ ret.name \in DOMAIN datasets
    /\ ret.obj = datasets[ret.name]
    /\ ~VersionAware(objs[ret.obj].type)

\* The load_versions keys that are neither an explicitly configured name
\* nor matched by a (non-default) pattern.
Offending ==
    {load_versions[i][1] : i \in 1..Len(load_versions)}
        \ {k \in AllNames : k \in DOMAIN config
                            \/ \E p \in DOMAIN dataset_patterns : Matches(p, k)}

\* C6: construction passes the version validation iff every load_versions
\* key is an explicitly configured name or matches some pattern; otherwise it
\* fails with DatasetNotFoundError listing exactly the offending keys, each
\* once, in sorted order.
C6_ValidationListsOffendingKeys ==
    phase # "new" =>
      /\ phase = "ready" <=> Offending = {}
      /\ phase = "failed" =>
           /\ ret.err = "DatasetNotFoundError"
           /\ {ret.errKeys[i] : i \in 1..Len(ret.errKeys)} = Offending
           /\ \A i, j \in 1..Len(ret.errKeys) :
                 i < j => StrLess(ret.errKeys[i], ret.errKeys[j])

\* C6 witness: construction failed on two offending keys that were given in
\* another order than the message lists them.
C6_Witness ==
    /\ phase = "failed"
    /\ Len(load_versions) = 2
    /\ Len(ret.errKeys) = 2
    /\ ret.errKeys # Keys(load_versions)

\* C7: with a default pattern configured, a load_versions key that is not an
\* explicitly configured name and is matched by the default pattern alone
\* makes construction fail with the not-found error listing it, although the
\* resolution get uses goes through the default pattern for that name.
C7_DefaultPatternNeverValidates ==
    (phase # "new" /\ DOMAIN default_pattern # {}) =>
    \A i \in 1..Len(load_versions) :
       LET key == load_versions[i][1]
           g == get_dataset(Cat, key, NoVersion)
       IN  (/\ key \notin DOMAIN config
            /\ \A p \in DOMAIN dataset_patterns : ~Matches(p, key)
            /\ \E p \in DOMAIN default_pattern : Matches(p, key)) =>
              /\ phase = "failed"
              /\ ret.err = "DatasetNotFoundError"
              /\ \E j \in 1..Len(ret.errKeys) : ret.errKeys[j] = key
              /\ match(key, dataset_patterns, default_pattern)
                    = [kind |-> "Match", template |-> default_pattern[PatDefault]]
              /\ key \notin DOMAIN datasets =>
                    /\ g.err = ""
                    /\ g.c.resolved[key] = default_pattern[PatDefault]

\* C7 witness: construction failed on the key "m", which no dataset, no
\* configured name and no pattern but the default one covers.
C7_Witness ==
    /\ phase = "failed"
    /\ DOMAIN default_pattern # {}
    /\ \E j \in 1..Len(ret.errKeys) : ret.errKeys[j] = NameM
    /\ NameM \notin DOMAIN datasets

\* An entry of a mapping is installed in c1, starting from c0: the name maps
\* to the dataset given, or to a new in-memory dataset holding the value.
Installed(c0, c1, e) ==
    /\ e.name \in DOMAIN c1.datasets
    /\ e.name \in DOMAIN c1.resolved /\ c1.resolved[e.name] = EmptyConfig
    /\ IF e.isDs
       THEN c1.datasets[e.name] = e.obj
       ELSE /\ c1.datasets[e.name] \notin DOMAIN c0.objs
            /\ c1.objs[c1.datasets[e.name]] = MemoryDataset(e.lit)

\* A name has in c1 the entry and stored config it has in c0, or none in both.
Untouched(c0, c1, n) ==
    /\ n \in DOMAIN c1.datasets <=> n \in DOMAIN c0.datasets
    /\ n \in DOMAIN c0.datasets => c1.datasets[n] = c0.datasets[n]
    /\ n \in DOMAIN c1.resolved <=> n \in DOMAIN c0.resolved
    /\ n \in DOMAIN c0.resolved => c1.resolved[n] = c0.resolved[n]

\* C8: when add_from_dict without replace fails with DatasetAlreadyExistsError
\* at the entry for a registered name k, every entry before k is installed,
\* k keeps its dataset, and no entry after k is installed.
C8_AddFromDictNoRollback ==
    phase = "ready" =>
    \A mp \in Mappings(Names, {PoolId(2)}, LiteralValues, MaxEntries + 1) :
       LET r == add_from_dict(Cat, mp, FALSE)
       IN  r.err = "DatasetAlreadyExistsError" =>
             \E k \in 1..Len(mp) :
                /\ mp[k].name = r.errName
                /\ mp[k].name \in DOMAIN datasets
                /\ Untouched(Cat, r.c, mp[k].name)
                /\ \A i \in 1..(k - 1) : Installed(Cat, r.c, mp[i])
                /\ \A i \in (k + 1)..Len(mp) : Untouched(Cat, r.c, mp[i].name)

\* C8 witness: add_from_dict failed at its second entry after wrapping and
\* installing the value of its first.
C8_Witness ==
    /\ ret.op = "add_from_dict"
    /\ ~ret.replace
    /\ ret.err = "DatasetAlreadyExistsError"
    /\ Len(ret.mapping) = 2
    /\ ret.mapping[2].name = ret.errName
    /\ ~ret.mapping[1].isDs
    /\ ret.mapping[1].name \in DOMAIN datasets
    /\ objs[datasets[ret.mapping[1].name]] = MemoryDataset(ret.mapping[1].lit)

\* C9: for a name m not yet registered, add_from_dict({m: v}) with a value
\* that is no dataset makes load(m) return v, from an in-memory dataset
\* holding v; with a dataset v it installs v itself, with no new object, so
\* get(m) returns v.
C9_AddFromDictWraps ==
    phase = "ready" =>
    \A m \in Names \ DOMAIN datasets :
       /\ \A v \in LiteralValues \cup {7} :
             LET r == add_from_dict(Cat, <<LitEntry(m, v)>>, FALSE)
                 l == load(r.c, m, NONE)
             IN  /\ r.err = "" /\ l.err = ""
                 /\ l.value = v
                 /\ l.obj \notin DOMAIN objs
                 /\ l.c.objs[l.obj] = MemoryDataset(v)
       /\ \A d \in DOMAIN objs :
             LET r == add_from_dict(Cat, <<DsEntry(m, d)>>, FALSE)
                 g == get_dataset(r.c, m, NoVersion)
             IN  /\ r.err = "" /\ g.err = ""
                 /\ g.obj = d
                 /\ r.c.objs = objs

\* C9 witness: load returned 42 from the in-memory dataset that wraps it
\* under the name.
C9_Witness ==
    /\ ret.op = "load"
    /\ ret.err = ""
    /\ ret.value = 42
    /\ ret.name \in DOMAIN datasets
    /\ ret.obj = datasets[ret.name]
    /\ ret.obj.kind = "memory"
    /\ objs[ret.obj] = MemoryDataset(42)

\* What confirm(n) does apart from the state it leaves: on a name that does
\* not resolve, the error of the resolution and no confirm; on a dataset
\* with confirm, exactly one confirm on it; otherwise a DatasetError naming
\* n and no call on the dataset.
ConfirmCalls(n, g, r) ==
    IF g.err # ""
    THEN r.err = g.err /\ r.calls = <<>> /\ r.c = Cat
    ELSE IF HasConfirm(g.c.objs[g.obj].type)
         THEN r.err = "" /\ r.calls = <<<<"confirm", g.obj>>>>
         ELSE r.err = "DatasetError" /\ r.errName = n /\ r.calls = <<>>

\* C10 as stated: confirm(name) invokes confirm exactly once on a dataset
\* that has it; otherwise it fails with a DatasetError naming the dataset,
\* invokes nothing and leaves the registry mapping unchanged; an unresolved
\* name raises the not-found error and no confirm is invoked.
C10_ConfirmMappingUnchanged ==
    phase = "ready" =>
    \A n \in Names :
       LET g == get_dataset(Cat, n, NoVersion)
           r == confirm(Cat, n)
       IN  /\ ConfirmCalls(n, g, r)
           /\ r.err = "DatasetError" => r.c.datasets = datasets

\* C10 amended: as C10, but the failing confirm leaves the registry as
\* get(name) leaves it: every entry there was is unchanged, name itself may
\* have been materialized and cached, and a later get or load of any name
\* returns what it would have returned before.
C10_ConfirmLeavesCatalogUsable ==
    phase = "ready" =>
    \A n \in Names :
       LET g == get_dataset(Cat, n, NoVersion)
           r == confirm(Cat, n)
       IN  /\ ConfirmCalls(n, g, r)
           /\ r.err = "DatasetError" =>
                /\ r.c = g.c
                /\ DOMAIN r.c.datasets \subseteq DOMAIN datasets \cup {n}
                /\ \A m \in DOMAIN datasets : r.c.datasets[m] = datasets[m]
                /\ \A m \in Names :
                      /\ get_dataset(r.c, m, NoVersion).err = get_dataset(Cat, m, NoVersion).err
                      /\ get_dataset(r.c, m, NoVersion).obj = get_dataset(Cat, m, NoVersion).obj
                      /\ load(r.c, m, NONE).err = load(Cat, m, NONE).err
                      /\ load(r.c, m, NONE).value = load(Cat, m, NONE).value

\* C10 witness: confirm failed with a DatasetError naming a dataset that has
\* no confirm, invoked nothing, and the dataset is cached under the name.
C10_Witness ==
    /\ ret.op = "confirm"
    /\ ret.err = "DatasetError"
    /\ ret.errName = ret.name
    /\ ret.calls = <<>>
    /\ ret.name \in DOMAIN datasets
    /\ ret.obj = datasets[ret.name]
    /\ ~HasConfirm(objs[ret.obj].type)

\* C11: for every interleaving of two concurrent get calls for the same
\* name that is not yet materialized, at most one dataset is constructed for
\* the name, and once both calls have returned, each caller holds the
\* instance the registry caches under the name.
C11_AtMostOneMaterialization ==
    /\ \A n \in AllNames : built[n] <= 1
    /\ (\A t \in Threads : threads[t].pc = "done") =>
          \A t \in Threads :
             threads[t].err = "" => threads[t].result = datasets[threads[t].name]

\* C14: a name that has a cached dataset keeps one: no get, load, release,
\* confirm, add or add_from_dict call, successful or failing, leaves the
\* name without an entry in the dataset mapping, in the calls the catalog
\* makes and in every call it could make next; and add of a name that has no
\* cached dataset caches the dataset given at once, with no construction
\* from a configuration.
C14_MaterializedIsTerminal ==
    /\ [](phase = "ready" =>
           /\ \A m \in Names :
                 /\ \A r \in ReadOps(Cat, m) :
                       DOMAIN datasets \subseteq DOMAIN r.c.datasets
                 /\ \A d \in DOMAIN objs, rep \in BOOLEAN :
                       DOMAIN datasets \subseteq DOMAIN add(Cat, m, d, rep).c.datasets
           /\ \A mp \in Mappings(Names, {PoolId(2)}, LiteralValues, MaxEntries),
                 rep \in BOOLEAN :
                 DOMAIN datasets \subseteq DOMAIN add_from_dict(Cat, mp, rep).c.datasets
           /\ \A n \in Names \ DOMAIN datasets, d \in DOMAIN objs, rep \in BOOLEAN :
                 LET r == add(Cat, n, d, rep)
                 IN  /\ r.err = ""
                     /\ n \in DOMAIN r.c.datasets
                     /\ r.c.datasets[n] = d
                     /\ r.c.built = built)
    /\ [][DOMAIN datasets \subseteq DOMAIN datasets']_vars

\* C14 witness: add with replace=true was called for a name that had a
\* dataset built from its configuration, and the name has a dataset still.
C14_Witness ==
    /\ ret.op = "add"
    /\ ret.replace
    /\ ret.err = ""
    /\ built[ret.name] = 1
    /\ ret.name \in DOMAIN datasets
    /\ datasets[ret.name].kind = "pool"

C20_LoadFromCopy ==
    phase = "ready" =>
    \A n \in Names :
       LET g == get_dataset(Cat, n, NoVersion)
       IN  g.err = "" =>
             /\ \A v \in {"v1", "v2"} :
                   LET l == load(Cat, n, v)
                   IN  VersionAware(g.c.objs[g.obj].type) =>
                         /\ l.obj \notin DOMAIN g.c.objs
                         /\ l.obj \in DOMAIN l.c.objs
                         /\ l.c.objs[l.obj].version = Version(v, NONE)
                         /\ l.calls = <<<<"load", l.obj>>>>
                         /\ l.c.datasets = g.c.datasets
                         /\ l.c.objs[g.obj] = g.c.objs[g.obj]
             /\ \A v \in {NONE, ""} :
                   LET l == load(Cat, n, v)
                   IN  /\ l.obj = g.obj
                       /\ l.calls = <<<<"load", g.obj>>>>
                       /\ l.c = g.c

\* C20: as C20_LoadFromCopy in every state, and no call after construction
\* changes the catalog's load_versions table or its save_version.
C20_LoadVersionOverride ==
    /\ []C20_LoadFromCopy
    /\ [][phase = "ready" =>
             load_versions' = load_versions /\ save_version' = save_version]_vars

\* C20 witness: load with version "v1" loaded from a copy with version
\* (v1, None) of the cached dataset, which keeps the versions it was built
\* with: the catalog's load version for the name and its save version.
C20_Witness ==
    /\ ret.op = "load"
    /\ ret.version = Version("v1", NONE)
    /\ ret.name \in DOMAIN datasets
    /\ ret.obj.kind = "copy"
    /\ ret.calls = <<<<"load", ret.obj>>>>
    /\ objs[ret.obj].version = Version("v1", NONE)
    /\ objs[datasets[ret.name]].version
          = Version(Get(load_versions, ret.name), save_version)
    /\ save_version # NONE

\* p is ranked before q: more non-placeholder characters, or as many and
\* fewer placeholder segments.
RankedBefore(p, q) ==
    LET lit(r) == Cardinality({i \in 1..Len(r) : r[i] \notin Placeholders})
        seg(r) == Cardinality({i \in 1..Len(r) : r[i] \in Placeholders})
    IN  lit(p) > lit(q) \/ (lit(p) = lit(q) /\ seg(p) < seg(q))

\* C15: for a name that is not registered and is matched by more than one
\* non-default pattern, get resolves it with the template of the match
\* ranked first when that one is ranked strictly before every other match,
\* and fails with the ambiguity error when the first two tie; the default
\* pattern's template is used exactly when no non-default pattern matches
\* and a default pattern exists, and the not-found error is raised exactly
\* when nothing matches and there is no default pattern.
C15_PatternSelection ==
    phase = "ready" =>
    \A n \in Names \ (DOMAIN datasets \cup DOMAIN config) :
       LET ms == {p \in DOMAIN dataset_patterns : Matches(p, n)}
           best == {p \in ms : \A q \in ms \ {p} : RankedBefore(p, q)}
           g == get_dataset(Cat, n, NoVersion)
           resolvedWith(t) ==
               /\ g.err = ""
               /\ n \in DOMAIN g.c.resolved /\ g.c.resolved[n] = t
               /\ g.c.objs[g.obj].type = TypeOf(t)
       IN  /\ \A p \in best : resolvedWith(dataset_patterns[p])
           /\ (ms # {} /\ best = {}) => g.err = "AmbiguousPatternError" /\ g.c = Cat
           /\ \A d \in DOMAIN default_pattern :
                 resolvedWith(default_pattern[d]) <=> ms = {}
           /\ g.err = "DatasetNotFoundError" <=> (ms = {} /\ DOMAIN default_pattern = {})

\* C15 witness: get resolved "r.a" with the template of "r{n}", which has as
\* many literal characters as the other match "{p}.{n}" and fewer
\* placeholders, although a default pattern exists.
C15_Witness ==
    /\ ret.op = "get_dataset"
    /\ ret.name = NameRA
    /\ ret.err = ""
    /\ NameRA \notin DOMAIN config
    /\ DOMAIN dataset_patterns = {PatRN, PatPN}
    /\ DOMAIN default_pattern # {}
    /\ resolved_ds_configs[NameRA] = dataset_patterns[PatRN]
    /\ objs[ret.obj].type = TypeOf(dataset_patterns[PatRN])

\* C16: a name in the explicit registry is not resolved through patterns:
\* get returns the registered dataset, or the one built from the explicit
\* configuration of the name, whatever patterns and default pattern match
\* the name too; and the version validation accepts a load_versions key that
\* is an explicitly configured name whether or not a pattern matches it.
C16_ExplicitBeforePatterns ==
    /\ phase # "new" =>
          /\ \A i \in 1..Len(load_versions) :
                load_versions[i][1] \in DOMAIN config =>
                   \A j \in 1..Len(ret.errKeys) : ret.errKeys[j] # load_versions[i][1]
          /\ (\A i \in 1..Len(load_versions) : load_versions[i][1] \in DOMAIN config)
                => phase = "ready"
    /\ phase = "ready" =>
          \A n \in Names :
             LET g == get_dataset(Cat, n, NoVersion)
             IN  /\ n \in DOMAIN datasets => g.err = "" /\ g.obj = datasets[n] /\ g.c = Cat
                 /\ n \in DOMAIN config \ DOMAIN datasets =>
                       /\ g.err = ""
                       /\ g.c.resolved = resolved_ds_configs
                       /\ g.c.resolved[n] = config[n]
                       /\ g.obj \notin DOMAIN objs
                       /\ g.c.objs[g.obj]
                             = from_config(n, config[n], Get(load_versions, n),
                                           save_version)

\* C16 witness: get returned the dataset built from the explicit
\* configuration of "r.a", a load_versions key, while two equally specific
\* patterns and the default pattern match "r.a" as well.
C16_Witness ==
    /\ phase = "ready"
    /\ ret.op = "get_dataset"
    /\ ret.name = NameRA
    /\ ret.version.none
    /\ ret.err = ""
    /\ NameRA \in DOMAIN config
    /\ {PatR, PatA} \subseteq DOMAIN dataset_patterns
    /\ DOMAIN default_pattern # {}
    /\ Keys(load_versions) = <<NameRA>>
    /\ ret.obj = datasets[NameRA]
    /\ objs[ret.obj] = from_config(NameRA, config[NameRA], "v1", save_version)

\* The elements of a sequence.
Range(sq) == {sq[i] : i \in 1..Len(sq)}

\* C12: any attempted mutation of a constructed namespace, setting or
\* deleting an attribute, for any key, fails with an AttributeError and
\* leaves the namespace as it was; for a set attempt the message is the
\* 'change datasets through configuration' one when the key is present and
\* the 'use DataCatalog.add()' one when it is absent.
C12_MutationRejected ==
    \A i \in DOMAIN namespaces :
       /\ \A key \in AttrKeys \cup {KeyOriginalNames} :
             LET r == setattr(Heap, i, key, PoolId(1))
             IN  /\ r.err = "AttributeError"
                 /\ r.h = Heap
                 /\ r.msg = IF key \in DOMAIN namespaces[i].attrs
                             THEN "Please change datasets through configuration."
                             ELSE "Please use DataCatalog.add() instead."
       /\ \A key \in AttrKeys :
             LET r == delattr(Heap, i, key)
             IN  r.err = "AttributeError" /\ r.h = Heap

\* C13: when two names that sanitize to the same key are registered with
\* distinct datasets in one construction call, the namespace holds under the
\* shared key the dataset written last, whichever of the names it is looked
\* up by, it enumerates every name once, both of them included, and the
\* registry maps each original name to its own dataset.
C13_CollisionKeepsRegistry ==
    old_catalog.constructed =>
       LET d == old_catalog.datasets
           ns == old_catalog.ns
           en == ipython_key_completions(Heap, ns)
       IN  \A i, j \in 1..Len(d) :
              (/\ i < j
               /\ sub_nonword_chars(d[i][1]) = sub_nonword_chars(d[j][1])
               /\ d[i][2] # d[j][2]
               /\ \A k \in (j + 1)..Len(d) :
                     sub_nonword_chars(d[k][1]) # sub_nonword_chars(d[j][1])) =>
                 /\ ns \in DOMAIN namespaces
                 /\ sub_nonword_chars(d[j][1]) \in DOMAIN namespaces[ns].attrs
                 /\ namespaces[ns].attrs[sub_nonword_chars(d[j][1])] = d[j][2]
                 /\ getitem(Heap, ns, d[i][1]).value = d[j][2]
                 /\ getitem(Heap, ns, d[j][1]).value = d[j][2]
                 /\ d[i][1] \in Range(en) /\ d[j][1] \in Range(en)
                 /\ Len(en) = Len(d)
                 /\ Get(d, d[i][1]) = d[i][2]
                 /\ Get(d, d[j][1]) = d[j][2]
                 /\ Get(d, d[i][1]) # Get(d, d[j][1])

\* C13 witness: DataCatalogOld was constructed with "r.a" and "r a" and two
\* datasets; its namespace enumerates both names and holds the dataset of
\* "r a", written last, under r__a.
C13_Witness ==
    /\ old_catalog.constructed
    /\ Keys(old_catalog.datasets) = <<NameRA, NameRSA>>
    /\ old_catalog.datasets[1][2] # old_catalog.datasets[2][2]
    /\ ipython_key_completions(Heap, old_catalog.ns) = <<NameRA, NameRSA>>
    /\ DOMAIN namespaces[old_catalog.ns].attrs = {NameRUA}
    /\ namespaces[old_catalog.ns].attrs[NameRUA] = old_catalog.datasets[2][2]

\* The names and the sanitized keys a collection contributes, and the
\* dataset it holds under a key.
NamesOf(h, c) ==
    IF c.frozen THEN Range(ipython_key_completions(h, c.ref)) ELSE Range(Keys(c.items))
KeysOf(h, c) ==
    IF c.frozen THEN DOMAIN h.ns[c.ref].attrs
    ELSE {sub_nonword_chars(n) : n \in Range(Keys(c.items))}
ValueOf(h, c, key) ==
    IF c.frozen THEN h.ns[c.ref].attrs[key]
    ELSE LET is == {i \in 1..Len(c.items) : sub_nonword_chars(c.items[i][1]) = key}
         IN  c.items[CHOOSE i \in is : \A j \in is : j <= i][2]

\* C18: a namespace built from any sequence of collections, dicts and
\* namespaces in any order, enumerates every original name of every
\* collection; lookup by an enumerated name succeeds; and under a sanitized
\* key that several collections contribute, the dataset of the last of them
\* is returned.
C18_EnumeratesAllNames ==
    \A cs \in CollectionSeqs(DictChoices, DOMAIN namespaces, MaxCollections) :
       LET r == FrozenDatasets_init(Heap, cs)
           en == ipython_key_completions(r.h, r.value)
       IN  /\ \A k \in 1..Len(cs) : NamesOf(Heap, cs[k]) \subseteq Range(en)
           /\ \A n \in Range(en) : getitem(r.h, r.value, n).err = ""
           /\ \A k \in 1..Len(cs) : \A key \in KeysOf(Heap, cs[k]) :
                 (\A l \in (k + 1)..Len(cs) : key \notin KeysOf(Heap, cs[l])) =>
                    /\ key \in DOMAIN r.h.ns[r.value].attrs
                    /\ r.h.ns[r.value].attrs[key] = ValueOf(Heap, cs[k], key)

\* C19: constructing a namespace from collections that include an existing
\* namespace N leaves N as it was: its enumeration of original names and its
\* key-to-dataset content, whatever comes before or after N.
C19_ConstructionLeavesNamespace ==
    \A cs \in CollectionSeqs(DictChoices, DOMAIN namespaces, MaxCollections) :
       \A i \in DOMAIN namespaces :
          FrozenColl(i) \in Range(cs) =>
             LET r == FrozenDatasets_init(Heap, cs)
             IN  /\ ipython_key_completions(r.h, i) = ipython_key_completions(Heap, i)
                 /\ r.h.ns[i].attrs = namespaces[i].attrs

(* ------------------------- the specifications ------------------------- *)

Next ==
    \/ Construct
    \/ GetDataset
    \/ Add
    \/ AddFromDict
    \/ Load
    \/ Release
    \/ Confirm

Spec == Init /\ [][Next]_vars

\* Construction alone, over every constructor argument within the bounds.
NextCtor == Construct
SpecCtor == InitCtor /\ [][NextCtor]_vars

\* Construction and resolution of names, over the pattern configurations.
NextMatch ==
    \/ Construct
    \/ GetDataset

SpecMatch == InitMatch /\ [][NextMatch]_vars

\* Two threads, each calling get_dataset once on the constructed catalog.
NextConc ==
    \/ Construct
    \/ Lookup
    \/ InitDataset
    \/ Return

SpecConc == Init /\ [][NextConc]_vars

\* The namespaces: built from dicts and from one another, and the attempts
\* to change them.  The new catalog is not constructed.
InitOld == Start({NoArgs})

NextOld ==
    \/ NewNamespace
    \/ SetAttr
    \/ DelAttr

SpecOld == InitOld /\ [][NextOld]_vars

\* Construction of DataCatalogOld alone, over its arguments within the bounds.
NextOldCtor == OldConstruct
SpecOldCtor == InitOld /\ [][NextOldCtor]_vars
====
